---------------------------- MODULE Spec2Model ----------------------------
(***************************************************************************)
(* Model of the machine-learning sync context of bada-frame:               *)
(*   src/src/services/machineLearning/machineLearningFactory.ts            *)
(* MLFactory (the algorithm registry) and LocalMLSyncContext (constructor, *)
(* getEnteWorker, dispose), together with the p-queue task queue the       *)
(* context owns and the per-file tasks that run on it.                     *)
(***************************************************************************)
EXTENDS Integers, Sequences, FiniteSets, TLC

(***************************************************************************)
(* Bounds of the model.                                                    *)
(***************************************************************************)
\* largest explicit concurrency argument tried
MaxConc == 2
\* largest task id; a task is named by the id it hands to getEnteWorker
MaxId == 1
\* number of getEnteWorker calls whose wrapper creation throws
MaxFail == 1
\* number of dispose() calls
MaxDispose == 2

(***************************************************************************)
(* Values.                                                                 *)
(***************************************************************************)
\* id is a plain number: one negative id is tried beside 0..MaxId
Ids == (0 - 1)..MaxId
Tasks == Ids
\* an empty array slot (a hole, read as undefined)
Empty == <<>>
\* every property key id % length can produce: indices below the longest
\* array, and -1 for the negative id
Keys == (0 - 1)..MaxConc
\* an execution context is named <<k, n>>: the n-th one created for key k;
\* its wrapper handle carries the same name
Handles == Keys \X (1..(MaxFail + 1))

\* the remainder operator of the language: the result has the sign of a
JSRem(a, n) == IF a >= 0 THEN a % n ELSE 0 - ((0 - a) % n)

(***************************************************************************)
(* MLFactory: the registry of stage services.                              *)
(***************************************************************************)
Categories ==
    <<"faceDetection", "faceCrop", "faceAlignment", "faceEmbedding",
      "faceClustering">>

MethodNames == {"BlazeFace", "ArcFace", "MobileFaceNet", "Hdbscan", "Dbscan"}

\* a service that was not resolved
NoService == "none"

getFaceDetectionService(method) ==
    IF method = "BlazeFace" THEN "blazeFaceDetectionService" ELSE NoService

getFaceCropService(method) ==
    IF method = "ArcFace" THEN "arcfaceCropService" ELSE NoService

getFaceAlignmentService(method) ==
    IF method = "ArcFace" THEN "arcfaceAlignmentService" ELSE NoService

getFaceEmbeddingService(method) ==
    IF method = "MobileFaceNet" THEN "mobileFaceNetEmbeddingService"
    ELSE NoService

getClusteringService(method) ==
    IF method = "Hdbscan" THEN "hdbscanClusteringService"
    ELSE IF method = "Dbscan" THEN "dbscanClusteringService"
    ELSE NoService

\* the service a category's getter returns, NoService where it throws
Resolve(category, method) ==
    CASE category = "faceDetection" -> getFaceDetectionService(method)
      [] category = "faceCrop" -> getFaceCropService(method)
      [] category = "faceAlignment" -> getFaceAlignmentService(method)
      [] category = "faceEmbedding" -> getFaceEmbeddingService(method)
      [] category = "faceClustering" -> getClusteringService(method)

Configs == [{Categories[i] : i \in 1..5} -> MethodNames]

\* the categories for which a config names a method that is not registered
Unregistered(config) ==
    {c \in DOMAIN config : Resolve(c, config[c]) = NoService}

(***************************************************************************)
(* The optional concurrency argument of the constructor.                   *)
(***************************************************************************)
\* the default of utils/common/concurrency
CONCURRENCY == 2

ConcurrencyArgs ==
    {[given |-> FALSE, value |-> 0]}
        \cup {[given |-> TRUE, value |-> v] : v \in (0 - 1)..MaxConc}

\* concurrency || CONCURRENCY
EffectiveConcurrency(arg) ==
    IF arg.given /\ arg.value # 0 THEN arg.value ELSE CONCURRENCY

(***************************************************************************)
(* Arrays and the queue.                                                   *)
(***************************************************************************)
NoArray == [allocated |-> FALSE, length |-> 0, at |-> [k \in Keys |-> Empty]]

\* new Array(n): n holes
NewArray(n) == [allocated |-> TRUE, length |-> n, at |-> [k \in Keys |-> Empty]]

\* isPaused and queueClass are the queue's options autoStart and queueClass
NoQueue ==
    [created |-> FALSE, concurrency |-> 0, queue |-> <<>>, pending |-> 0,
     listeners |-> FALSE, isPaused |-> FALSE, queueClass |-> "PriorityQueue"]

\* a variant that passes autoStart: false, so the queue is built paused
NewPQueue_Paused(c) ==
    [created |-> TRUE, concurrency |-> c, queue |-> <<>>, pending |-> 0,
     listeners |-> FALSE, isPaused |-> TRUE, queueClass |-> "PriorityQueue"]

\* a variant that passes a queueClass handing out the newest task first
NewPQueue_Stack(c) ==
    [created |-> TRUE, concurrency |-> c, queue |-> <<>>, pending |-> 0,
     listeners |-> FALSE, isPaused |-> FALSE, queueClass |-> "Stack"]

\* new PQueue({ concurrency }): nothing queued, nothing pending; the options
\* left out keep their defaults (autoStart, the priority queue class)
NewPQueue(c) ==
    [created |-> TRUE, concurrency |-> c, queue |-> <<>>, pending |-> 0,
     listeners |-> FALSE, isPaused |-> FALSE, queueClass |-> "PriorityQueue"]

\* logQueueStats(queue, name): attaches the statistics listeners
logQueueStats(q) == [q EXCEPT !.listeners = TRUE]

\* the index of the first category whose getter throws, 6 when none does
FirstUnknownFrom(config, i) ==
    LET bad == {j \in i..5 : Resolve(Categories[j], config[Categories[j]]) = NoService}
    IN  IF bad = {} THEN 6 ELSE CHOOSE j \in bad : \A k \in bad : j <= k

(***************************************************************************)
(* LocalMLSyncContext.constructor, as the fields it leaves behind.  error  *)
(* names what was thrown: a category whose method is not registered,       *)
(* "concurrency" when PQueue rejects a concurrency below 1, or "none".     *)
(* resolved counts the service fields that were assigned (the getters run  *)
(* in the order of Categories); which service each one holds plays no part *)
(* in what follows.                                                        *)
(***************************************************************************)
\* a variant that sets up the queue and the pool before resolving services
Constructor_QueueFirst(config, arg) ==
    LET bad == FirstUnknownFrom(config, 1)
        c == EffectiveConcurrency(arg)
    IN  [error |-> IF c < 1 THEN "concurrency"
                   ELSE IF bad <= 5 THEN Categories[bad] ELSE "none",
         resolved |-> IF c >= 1 THEN bad - 1 ELSE 0,
         initialised |-> (bad > 5 /\ c >= 1),
         concurrency |-> c,
         syncQueue |-> IF c >= 1 THEN logQueueStats(NewPQueue(c)) ELSE NoQueue,
         enteComlinkWorkers |-> IF c >= 1 THEN NewArray(c) ELSE NoArray,
         enteWorkers |-> IF c >= 1 THEN NewArray(c) ELSE NoArray]

\* a variant that builds the queue with room for one more task
Constructor_WideQueue(config, arg) ==
    LET bad == FirstUnknownFrom(config, 1)
        c == EffectiveConcurrency(arg)
    IN  [error |-> IF bad <= 5 THEN Categories[bad]
                   ELSE IF c < 1 THEN "concurrency" ELSE "none",
         resolved |-> bad - 1,
         initialised |-> (bad > 5),
         concurrency |-> IF bad > 5 THEN c ELSE 0,
         syncQueue |-> IF bad > 5 /\ c >= 1
                       THEN logQueueStats(NewPQueue(c + 1)) ELSE NoQueue,
         enteComlinkWorkers |-> IF bad > 5 /\ c >= 1 THEN NewArray(c) ELSE NoArray,
         enteWorkers |-> IF bad > 5 /\ c >= 1 THEN NewArray(c) ELSE NoArray]

\* a variant that sizes the pool by the default, whatever the argument
Constructor_DefaultPool(config, arg) ==
    LET bad == FirstUnknownFrom(config, 1)
        c == EffectiveConcurrency(arg)
    IN  [error |-> IF bad <= 5 THEN Categories[bad]
                   ELSE IF c < 1 THEN "concurrency" ELSE "none",
         resolved |-> bad - 1,
         initialised |-> (bad > 5),
         concurrency |-> IF bad > 5 THEN c ELSE 0,
         syncQueue |-> IF bad > 5 /\ c >= 1
                       THEN logQueueStats(NewPQueue(c)) ELSE NoQueue,
         enteComlinkWorkers |-> IF bad > 5 /\ c >= 1
                                THEN NewArray(CONCURRENCY) ELSE NoArray,
         enteWorkers |-> IF bad > 5 /\ c >= 1
                         THEN NewArray(CONCURRENCY) ELSE NoArray]

Constructor(config, arg) ==
    LET \* lines 131-145: the five getters in order; the first throw ends it
        bad == FirstUnknownFrom(config, 1)
        \* line 151
        c == EffectiveConcurrency(arg)
    IN  [error |-> IF bad <= 5 THEN Categories[bad]
                   ELSE IF c < 1 THEN "concurrency" ELSE "none",
         resolved |-> bad - 1,
         \* lines 147-149: outOfSyncFiles = [], nSyncedFiles = nSyncedFaces = 0
         initialised |-> (bad > 5),
         concurrency |-> IF bad > 5 THEN c ELSE 0,
         \* lines 156-157
         syncQueue |-> IF bad > 5 /\ c >= 1
                       THEN logQueueStats(NewPQueue(c)) ELSE NoQueue,
         \* lines 161-162
         enteComlinkWorkers |-> IF bad > 5 /\ c >= 1 THEN NewArray(c) ELSE NoArray,
         enteWorkers |-> IF bad > 5 /\ c >= 1 THEN NewArray(c) ELSE NoArray]

(***************************************************************************)
(* LocalMLSyncContext.getEnteWorker(id), lines 165-173.  The body holds no *)
(* await, so a call runs from its first line to its return as one step.    *)
(* outcome says what the two creations of the call do when the slot is     *)
(* empty: "ok", "factoryThrows" (getDedicatedCryptoWorker throws) or       *)
(* "wrapperThrows" (new ...comlink() throws).  made[k] counts the execution *)
(* contexts created for key k so far.                                      *)
(***************************************************************************)
Outcomes == {"ok", "factoryThrows", "wrapperThrows"}

\* a variant without the emptiness test of line 167: every call creates
getEnteWorker_NoGuard(workers, comlinkWorkers, id, outcome, made) ==
    LET wid == JSRem(id, workers.length)
        fresh == <<wid, made[wid] + 1>>
    IN  IF outcome = "factoryThrows"
        THEN [enteWorkers |-> workers, enteComlinkWorkers |-> comlinkWorkers,
              wid |-> wid, result |-> "rejected", handle |-> Empty,
              spawned |-> FALSE]
        ELSE IF outcome = "wrapperThrows"
        THEN [enteWorkers |-> workers,
              enteComlinkWorkers |->
                  [comlinkWorkers EXCEPT !.at[wid] = fresh],
              wid |-> wid, result |-> "rejected", handle |-> Empty,
              spawned |-> TRUE]
        ELSE [enteWorkers |-> [workers EXCEPT !.at[wid] = fresh],
              enteComlinkWorkers |->
                  [comlinkWorkers EXCEPT !.at[wid] = fresh],
              wid |-> wid, result |-> "ok", handle |-> fresh,
              spawned |-> TRUE]

getEnteWorker(workers, comlinkWorkers, id, outcome, made) ==
    LET \* line 166
        wid == JSRem(id, workers.length)
        \* the context getDedicatedCryptoWorker() would create
        fresh == <<wid, made[wid] + 1>>
    IN  IF workers.at[wid] # Empty
        THEN \* line 172, the slot is populated
             [enteWorkers |-> workers, enteComlinkWorkers |-> comlinkWorkers,
              wid |-> wid, result |-> "ok", handle |-> workers.at[wid],
              spawned |-> FALSE]
        ELSE IF outcome = "factoryThrows"
        THEN \* line 168 throws before its assignment
             [enteWorkers |-> workers, enteComlinkWorkers |-> comlinkWorkers,
              wid |-> wid, result |-> "rejected", handle |-> Empty,
              spawned |-> FALSE]
        ELSE IF outcome = "wrapperThrows"
        THEN \* line 168 has assigned, line 169 throws before its assignment
             [enteWorkers |-> workers,
              enteComlinkWorkers |->
                  [comlinkWorkers EXCEPT !.at[wid] = fresh],
              wid |-> wid, result |-> "rejected", handle |-> Empty,
              spawned |-> TRUE]
        ELSE \* lines 168, 169, 172
             [enteWorkers |-> [workers EXCEPT !.at[wid] = fresh],
              enteComlinkWorkers |->
                  [comlinkWorkers EXCEPT !.at[wid] = fresh],
              wid |-> wid, result |-> "ok", handle |-> fresh,
              spawned |-> TRUE]

(***************************************************************************)
(* The loop of dispose(), lines 182-184: for...of visits the indices       *)
(* 0..length-1 and calls terminate() on the worker of every slot that is   *)
(* not a hole.  dead holds the contexts terminate() was called on before.  *)
(***************************************************************************)
Visited(comlinkWorkers) ==
    {comlinkWorkers.at[i] : i \in 0..(comlinkWorkers.length - 1)} \ {Empty}

TerminateAll(comlinkWorkers, dead) == dead \cup Visited(comlinkWorkers)

(***************************************************************************)
(* p-queue, as the context uses it.                                        *)
(***************************************************************************)
\* _tryToStartAnother: the head of the queue starts when a slot is free and
\* the queue is not paused
TryToStartAnother(q) ==
    IF q.queue # <<>> /\ q.pending < q.concurrency /\ ~q.isPaused
    THEN [q EXCEPT !.queue = Tail(q.queue), !.pending = q.pending + 1]
    ELSE q

\* enqueue of the queue class: tasks are added with equal priority, which
\* the priority queue class puts behind the tasks already waiting
Enqueue(q, t) ==
    IF q.queueClass = "PriorityQueue" THEN Append(q.queue, t)
    ELSE <<t>> \o q.queue

\* add(task): enqueue, then _tryToStartAnother
QueueAdd(q, t) == TryToStartAnother([q EXCEPT !.queue = Enqueue(q, t)])

\* _next, after a task settled: one pending less, then _tryToStartAnother
QueueNext(q) == TryToStartAnother([q EXCEPT !.pending = q.pending - 1])

\* what onIdle() waits for
IsIdle(q) == q.pending = 0 /\ q.queue = <<>>

(***************************************************************************)
(* State.                                                                  *)
(***************************************************************************)
VARIABLES
    cstate,             \* "none", "failed" (the constructor threw), "ready"
    ctx,                \* what the constructor left: error, resolved, ...,
                        \* of config the categories it misnames, and the
                        \* fields outOfSyncFiles, nSyncedFaces and
                        \* allSyncedFacesMap as it left them
    localFilesMap,      \* "undefined", "empty" or "populated"
    nSyncedFiles,       \* files synced so far
    error,              \* the context-level error: "unset" or "set"
    syncQueue,          \* the PQueue
    enteComlinkWorkers, \* pool array of raw execution contexts
    enteWorkers,        \* pool array of wrapper handles
    created,            \* created[k]: execution contexts created for key k
    terminated,         \* the execution contexts terminate() was called on
    tstate,             \* per task: "new", "queued", "running", "settled"
    tworker,            \* per task: the handle getEnteWorker last gave it
    dpc                 \* per dispose() call: "notcalled", "waiting",
                        \* "resolved" (onIdle resolved, continuation due), "done"

vars ==
    <<cstate, ctx, localFilesMap, nSyncedFiles, error, syncQueue,
      enteComlinkWorkers, enteWorkers, created, terminated, tstate, tworker,
      dpc>>

NoCtx ==
    [unregistered |-> {}, error |-> "none", resolved |-> 0,
     initialised |-> FALSE, concurrency |-> 0, outOfSyncFiles |-> "undefined",
     nSyncedFaces |-> 0, allSyncedFacesMap |-> "undefined"]

Init ==
    /\ cstate = "none"
    /\ ctx = NoCtx
    /\ localFilesMap = "undefined"
    /\ nSyncedFiles = 0
    /\ error = "unset"
    /\ syncQueue = NoQueue
    /\ enteComlinkWorkers = NoArray
    /\ enteWorkers = NoArray
    /\ created = [k \in Keys |-> 0]
    /\ terminated = {}
    /\ tstate = [t \in Tasks |-> "new"]
    /\ tworker = [t \in Tasks |-> Empty]
    /\ dpc = [k \in 1..MaxDispose |-> "notcalled"]

Running == {t \in Tasks : tstate[t] = "running"}
DisposeDone == {k \in 1..MaxDispose : dpc[k] = "done"}
DisposeCalled == {k \in 1..MaxDispose : dpc[k] # "notcalled"}
\* the execution contexts created so far
Created == {h \in Handles : h[2] <= created[h[1]]}
\* the populated slots of an array
Populated(array) == {k \in Keys : array.at[k] # Empty}
\* the calls so far that created a context and then threw
Failures == Cardinality(Created) - Cardinality(Populated(enteWorkers))
\* the tasks waiting in a queue
Waiting(q) == {q.queue[i] : i \in 1..Len(q.queue)}

(***************************************************************************)
(* Actions.                                                                *)
(***************************************************************************)
\* new LocalMLSyncContext(token, config, shouldUpdateMLVersion, concurrency?)
\* or MLFactory.getMLSyncContext(token, config), which omits the concurrency.
\* Lines 147-149 assign outOfSyncFiles, nSyncedFiles and nSyncedFaces; no
\* line of the constructor assigns localFilesMap, allSyncedFacesMap or error
Construct ==
    /\ cstate = "none"
    /\ \E config \in Configs, arg \in ConcurrencyArgs :
          LET r == Constructor(config, arg)
          IN  /\ cstate' = IF r.error = "none" THEN "ready" ELSE "failed"
              /\ ctx' = [unregistered |-> Unregistered(config),
                         error |-> r.error, resolved |-> r.resolved,
                         initialised |-> r.initialised,
                         concurrency |-> r.concurrency,
                         outOfSyncFiles |->
                             IF r.initialised THEN "empty" ELSE "undefined",
                         nSyncedFaces |-> 0,
                         allSyncedFacesMap |-> "undefined"]
              /\ syncQueue' = r.syncQueue
              /\ enteComlinkWorkers' = r.enteComlinkWorkers
              /\ enteWorkers' = r.enteWorkers
    /\ nSyncedFiles' = 0
    /\ UNCHANGED <<localFilesMap, error, created, terminated, tstate, tworker,
                   dpc>>

\* the caller fills localFilesMap before the sync submits its tasks
PopulateLocalFiles ==
    /\ cstate = "ready"
    /\ localFilesMap = "undefined"
    /\ DisposeCalled = {}
    /\ \A t \in Tasks : tstate[t] = "new"
    /\ localFilesMap' = "populated"
    /\ UNCHANGED <<cstate, ctx, nSyncedFiles, error, syncQueue,
                   enteComlinkWorkers, enteWorkers, created, terminated,
                   tstate, tworker, dpc>>

\* syncQueue.add(task of file t); the driver enqueues no file once the
\* context-level error is set
Submit(t) ==
    /\ cstate = "ready"
    /\ tstate[t] = "new"
    /\ error = "unset"
    /\ localFilesMap = "populated" \/ DisposeCalled # {}
    /\ LET q == QueueAdd(syncQueue, t)
           started == ({t} \cup Waiting(syncQueue)) \ Waiting(q)
       IN  /\ syncQueue' = q
           /\ tstate' = [u \in Tasks |->
                            IF u \in started THEN "running"
                            ELSE IF u = t THEN "queued" ELSE tstate[u]]
    /\ UNCHANGED <<cstate, ctx, localFilesMap, nSyncedFiles, error,
                   enteComlinkWorkers, enteWorkers, created, terminated,
                   tworker, dpc>>

\* the running task of file t calls getEnteWorker(t)
TaskGetEnteWorker(t, outcome) ==
    /\ cstate = "ready"
    /\ tstate[t] = "running"
    /\ LET r == getEnteWorker(enteWorkers, enteComlinkWorkers, t, outcome,
                              created)
       IN  /\ r.result = "rejected" /\ r.spawned => Failures < MaxFail
           /\ r.spawned => created[r.wid] <= MaxFail
           /\ enteWorkers' = r.enteWorkers
           /\ enteComlinkWorkers' = r.enteComlinkWorkers
           /\ created' = IF r.spawned
                         THEN [created EXCEPT ![r.wid] = created[r.wid] + 1]
                         ELSE created
           /\ tworker' = IF r.result = "ok"
                         THEN [tworker EXCEPT ![t] = r.handle] ELSE tworker
    /\ UNCHANGED <<cstate, ctx, localFilesMap, nSyncedFiles, error,
                   syncQueue, terminated, tstate, dpc>>

\* how a per-file task ends: it synced its file, a stage failed with an
\* error recorded against the file, or with one of the fatal class
SettleKinds == {"synced", "failed", "fatal"}

\* the task of file t settles: it synced its file (counted in nSyncedFiles)
\* or it failed, a fatal failure setting the context-level error; the
\* queue's _next runs, and an onIdle() promise resolves when that leaves the
\* queue idle
TaskSettle(t, kind) ==
    /\ cstate = "ready"
    /\ tstate[t] = "running"
    /\ LET q == QueueNext(syncQueue)
           started == Waiting(syncQueue) \ Waiting(q)
       IN  /\ syncQueue' = q
           /\ tstate' = [u \in Tasks |->
                            IF u = t THEN "settled"
                            ELSE IF u \in started THEN "running"
                            ELSE tstate[u]]
           /\ dpc' = [k \in 1..MaxDispose |->
                         IF dpc[k] = "waiting" /\ IsIdle(q)
                         THEN "resolved" ELSE dpc[k]]
    /\ nSyncedFiles' = IF kind = "synced" THEN nSyncedFiles + 1
                       ELSE nSyncedFiles
    /\ error' = IF kind = "fatal" THEN "set" ELSE error
    /\ UNCHANGED <<cstate, ctx, localFilesMap, enteComlinkWorkers,
                   enteWorkers, created, terminated, tworker>>

\* a variant that calls syncQueue.clear() before waiting: the tasks still
\* queued are dropped and never run
DisposeCall_Cancels(k) ==
    /\ cstate = "ready"
    /\ dpc[k] = "notcalled"
    /\ \A j \in 1..(k - 1) : dpc[j] = "done"
    /\ localFilesMap' = "undefined"
    /\ syncQueue' = [syncQueue EXCEPT !.queue = <<>>]
    /\ tstate' = [t \in Tasks |->
                     IF tstate[t] = "queued" THEN "cancelled" ELSE tstate[t]]
    /\ dpc' = [dpc EXCEPT ![k] =
                  IF syncQueue.pending = 0 THEN "resolved" ELSE "waiting"]
    /\ UNCHANGED <<cstate, ctx, nSyncedFiles, error, enteComlinkWorkers,
                   enteWorkers, created, terminated, tworker>>

\* a variant that resets the context-level error along with localFilesMap
DisposeCall_ClearsError(k) ==
    /\ cstate = "ready"
    /\ dpc[k] = "notcalled"
    /\ \A j \in 1..(k - 1) : dpc[j] = "done"
    /\ localFilesMap' = "undefined"
    /\ error' = "unset"
    /\ dpc' = [dpc EXCEPT ![k] =
                  IF IsIdle(syncQueue) THEN "resolved" ELSE "waiting"]
    /\ UNCHANGED <<cstate, ctx, nSyncedFiles, syncQueue, enteComlinkWorkers,
                   enteWorkers, created, terminated, tstate, tworker>>

\* a variant that clears localFilesMap only after the wait
DisposeCall_KeepsFiles(k) ==
    /\ cstate = "ready"
    /\ dpc[k] = "notcalled"
    /\ \A j \in 1..(k - 1) : dpc[j] = "done"
    /\ dpc' = [dpc EXCEPT ![k] =
                  IF IsIdle(syncQueue) THEN "resolved" ELSE "waiting"]
    /\ UNCHANGED <<cstate, ctx, localFilesMap, nSyncedFiles, error, syncQueue,
                   enteComlinkWorkers, enteWorkers, created, terminated,
                   tstate, tworker>>

\* dispose() up to its await, lines 179-180; the caller issues a further
\* dispose() once the one before has returned
DisposeCall(k) ==
    /\ cstate = "ready"
    /\ dpc[k] = "notcalled"
    /\ \A j \in 1..(k - 1) : dpc[j] = "done"
    /\ localFilesMap' = "undefined"
    /\ dpc' = [dpc EXCEPT ![k] =
                  IF IsIdle(syncQueue) THEN "resolved" ELSE "waiting"]
    /\ UNCHANGED <<cstate, ctx, nSyncedFiles, error, syncQueue,
                   enteComlinkWorkers, enteWorkers, created, terminated,
                   tstate, tworker>>

\* dispose() after its await, lines 181-184
DisposeResume(k) ==
    /\ cstate = "ready"
    /\ dpc[k] = "resolved"
    /\ syncQueue' = [syncQueue EXCEPT !.listeners = FALSE]
    /\ terminated' = TerminateAll(enteComlinkWorkers, terminated)
    /\ dpc' = [dpc EXCEPT ![k] = "done"]
    /\ UNCHANGED <<cstate, ctx, localFilesMap, nSyncedFiles, error,
                   enteComlinkWorkers, enteWorkers, created, tstate, tworker>>

Next ==
    \/ Construct
    \/ PopulateLocalFiles
    \/ \E t \in Tasks : Submit(t)
    \/ \E t \in Tasks, outcome \in Outcomes : TaskGetEnteWorker(t, outcome)
    \/ \E t \in Tasks, kind \in SettleKinds : TaskSettle(t, kind)
    \/ \E k \in 1..MaxDispose : DisposeCall(k)
    \/ \E k \in 1..MaxDispose : DisposeResume(k)

Spec == Init /\ [][Next]_vars

\* every running task completes or fails in the end, and the continuation
\* of an await whose promise resolved is run by the event loop
FairSpec ==
    /\ Spec
    /\ \A t \in Tasks : WF_vars(\E kind \in SettleKinds : TaskSettle(t, kind))
    /\ \A k \in 1..MaxDispose : WF_vars(DisposeResume(k))

(***************************************************************************)
(* Properties.                                                             *)
(***************************************************************************)
\* the slot key getEnteWorker computes for task id t on the built context
Slot(t) == JSRem(t, enteWorkers.length)

\* a step that is dispose() number k running its own code: its call up to
\* the await, or its continuation after the await
DisposeStep(k) ==
    \/ dpc[k] = "notcalled" /\ dpc'[k] # "notcalled"
    \/ dpc[k] = "resolved" /\ dpc'[k] = "done"

\* C1: for every configured concurrency C >= 1, the number of per-file tasks
\* executing at the same time never exceeds C.
C1_RunningAtMostConcurrency ==
    cstate = "ready" =>
        /\ ctx.concurrency >= 1
        /\ Cardinality(Running) <= ctx.concurrency

\* C1 witness: with C = 2 the limit is reached and a further task is held back
C1_Witness ==
    /\ cstate = "ready"
    /\ ctx.concurrency = 2
    /\ Cardinality(Running) = 2
    /\ syncQueue.queue # <<>>

\* C2: no step calls terminate() on the worker that getEnteWorker returned to
\* a task still running, so no task runs on a terminated worker while
\* dispose() is under way.
C2_NoRunningTaskLosesItsWorker ==
    [][\A t \in Tasks :
          (tstate[t] = "running" /\ tworker[t] # Empty
              /\ tworker[t] \notin terminated)
            => tworker[t] \notin terminated']_vars

\* C3: for each slot, at most one backing execution context is ever
\* created, however many calls find the slot empty.
C3_OneContextPerSlot == \A k \in Keys : created[k] <= 1

C5_DisposeTerminatesAllCreated ==
    [][\A k \in 1..MaxDispose :
          (dpc[k] = "resolved" /\ dpc'[k] = "done" /\ Running = {})
            => \A h \in Created : h[1] >= 0 => h \in terminated']_vars

\* C6: a getEnteWorker call that created a context for a slot and failed
\* (the wrapper array's slot is still empty) leaves the slot empty in the
\* raw array as well.
C6_FailedCallLeavesSlotEmpty ==
    [][\A k \in Keys :
          (created'[k] > created[k] /\ enteWorkers'.at[k] = Empty)
            => enteComlinkWorkers'.at[k] = Empty]_vars

\* C7: once a dispose() has completed, no getEnteWorker call creates a
\* backing execution context or hands a worker to a task, and the pool
\* arrays no longer change.
C7_DisposedIsTerminal ==
    [][DisposeDone # {}
          => /\ created' = created
             /\ enteWorkers' = enteWorkers
             /\ enteComlinkWorkers' = enteComlinkWorkers
             /\ tworker' = tworker]_vars

\* C8: a dispose() after the first one is a no-op: none of its steps
\* terminates a worker, detaches a listener or touches localFilesMap.
C8_SecondDisposeIsNoOp ==
    [][\A k \in 2..MaxDispose :
          DisposeStep(k)
            => /\ terminated' = terminated
               /\ syncQueue' = syncQueue
               /\ localFilesMap' = localFilesMap]_vars

\* C9: a config that names an unregistered method for any category makes
\* construction fail with that category's unknown-method error, with no
\* queue created, no pool allocated and no listener attached.
C9_UnknownMethodFailsClean ==
    ctx.unregistered # {} =>
        /\ cstate = "failed"
        /\ ctx.error \in ctx.unregistered
        /\ ~syncQueue.created
        /\ ~syncQueue.listeners
        /\ ~enteWorkers.allocated
        /\ ~enteComlinkWorkers.allocated

\* C9 witness: only the last category resolved, clustering, is misnamed
C9_Witness ==
    /\ cstate = "failed"
    /\ ctx.unregistered = {"faceClustering"}
    /\ ctx.resolved = 4

\* C10: on a built context both pool arrays have exactly concurrency slots,
\* concurrency is the explicit argument or the default, and the queue admits
\* exactly concurrency tasks: never more, and none waits while fewer run.
C10_PoolLengthIsConcurrency ==
    cstate = "ready" =>
        /\ ctx.concurrency \in (1..MaxConc) \cup {CONCURRENCY}
        /\ enteWorkers.allocated /\ enteWorkers.length = ctx.concurrency
        /\ enteComlinkWorkers.allocated
        /\ enteComlinkWorkers.length = ctx.concurrency
        /\ syncQueue.concurrency = ctx.concurrency
        /\ syncQueue.pending = Cardinality(Running)
        /\ syncQueue.pending <= ctx.concurrency
        /\ syncQueue.queue # <<>> => syncQueue.pending = ctx.concurrency

\* C10 witness: an explicit concurrency other than the default, in use
C10_Witness ==
    /\ cstate = "ready"
    /\ ctx.concurrency # CONCURRENCY
    /\ enteWorkers.length = ctx.concurrency
    /\ syncQueue.pending = ctx.concurrency
    /\ syncQueue.queue # <<>>

\* C11: dispose() drains and never cancels: a task that is queued or
\* running stays so until the queue starts it and it settles by itself, also
\* across the steps of dispose(); every such task does settle; and every
\* dispose() that was called completes, its last step calling terminate() on
\* the worker of every populated slot 0..C-1 of the pool, whether or not the
\* context-level error is set.
C11_DisposeDrains ==
    /\ [][\A t \in Tasks :
            /\ tstate[t] = "queued" => tstate'[t] \in {"queued", "running"}
            /\ tstate[t] = "running" => tstate'[t] \in {"running", "settled"}
            /\ (\E k \in 1..MaxDispose : DisposeStep(k))
                  => tstate'[t] = tstate[t]]_vars
    /\ [][\A k \in 1..MaxDispose :
            (dpc[k] # "done" /\ dpc'[k] = "done")
              => /\ dpc[k] = "resolved"
                 /\ Visited(enteComlinkWorkers') \subseteq terminated']_vars
    /\ \A t \in Tasks :
          (tstate[t] \in {"queued", "running"}) ~> (tstate[t] = "settled")
    /\ \A k \in 1..MaxDispose :
          (dpc[k] # "notcalled") ~> (dpc[k] = "done")

\* C11 witness: a dispose() has completed on a context whose error is set,
\* after a task settled, and has terminated the worker that task held
C11_Witness ==
    /\ dpc[1] = "done"
    /\ error = "set"
    /\ terminated # {}
    /\ \E t \in Tasks : tstate[t] = "settled" /\ tworker[t] \in terminated

\* C12: the step that constructs the context leaves it in its initial
\* state: both counters zero, localFilesMap, outOfSyncFiles and
\* allSyncedFacesMap initialized and empty, error unset, every pool slot
\* empty.
C12_ConstructedIsInitial ==
    [][(cstate = "none" /\ cstate' = "ready")
          => /\ nSyncedFiles' = 0
             /\ ctx'.nSyncedFaces = 0
             /\ localFilesMap' = "empty"
             /\ ctx'.outOfSyncFiles = "empty"
             /\ ctx'.allSyncedFacesMap = "empty"
             /\ error' = "unset"
             /\ Populated(enteWorkers') = {}
             /\ Populated(enteComlinkWorkers') = {}]_vars

\* the tasks that have settled
Settled == {t \in Tasks : tstate[t] = "settled"}

\* a step in which the task of file t settles without having synced its file
FailureStep(t) ==
    /\ tstate[t] = "running"
    /\ tstate'[t] = "settled"
    /\ nSyncedFiles' = nSyncedFiles

\* C13: a task's failure is confined to it: in the step in which a task
\* fails no sibling is cancelled or removed (a queued sibling stays queued or
\* starts, a running one keeps running, the queue loses only the task it
\* starts), no sibling is held back while a running slot is free, and the
\* queue is idle once no task is queued or running, which it comes to be.
C13_FailureIsConfined ==
    /\ [][\A t \in Tasks :
            FailureStep(t)
              => /\ \A u \in Tasks \ {t} :
                      /\ tstate[u] = "queued"
                            => tstate'[u] \in {"queued", "running"}
                      /\ tstate[u] = "running" => tstate'[u] = "running"
                 /\ Waiting(syncQueue)
                      = Waiting(syncQueue')
                          \cup {u \in Tasks : /\ tstate[u] = "queued"
                                              /\ tstate'[u] = "running"}
                 /\ syncQueue'.queue # <<>>
                      => syncQueue'.pending = syncQueue'.concurrency]_vars
    /\ []((cstate = "ready" /\ \A u \in Tasks : tstate[u] \in {"new", "settled"})
            => IsIdle(syncQueue))
    /\ (cstate = "ready" /\ ~IsIdle(syncQueue)) ~> IsIdle(syncQueue)

\* C13 witness: one task failed without a fatal error, its two siblings
\* synced their files, and the queue is idle
C13_Witness ==
    /\ cstate = "ready"
    /\ Cardinality(Settled) = 3
    /\ nSyncedFiles = 2
    /\ error = "unset"
    /\ IsIdle(syncQueue)

\* C14: admission is first in, first out: a task that has to wait joins the
\* queue behind the tasks already waiting, a task starts at once only when
\* none is waiting, the task started from the queue is the one at its head,
\* the others keep their order, and a task is started from the queue
\* whenever a running task settles while one waits.
C14_FifoAdmission ==
    [][\A t \in Tasks :
          /\ (tstate[t] = "new" /\ tstate'[t] = "queued")
                => syncQueue'.queue = Append(syncQueue.queue, t)
          /\ (tstate[t] = "new" /\ tstate'[t] = "running")
                => syncQueue.queue = <<>> /\ syncQueue'.queue = <<>>
          /\ (tstate[t] = "queued" /\ tstate'[t] = "running")
                => /\ t = Head(syncQueue.queue)
                   /\ syncQueue'.queue = Tail(syncQueue.queue)
          /\ (tstate[t] = "running" /\ tstate'[t] = "settled"
                /\ syncQueue.queue # <<>>)
                => tstate'[Head(syncQueue.queue)] = "running"]_vars

\* C14 witness: with one running slot, a task has settled, the next one is
\* running and a third one is still waiting
C14_Witness ==
    /\ cstate = "ready"
    /\ ctx.concurrency = 1
    /\ Settled # {}
    /\ Running # {}
    /\ syncQueue.queue # <<>>

C16_DisposeOrder ==
    /\ [](\A k \in 1..MaxDispose :
            dpc[k] \in {"waiting", "resolved"} => localFilesMap = "undefined")
    /\ [](dpc[1] = "waiting" => syncQueue.listeners /\ terminated = {})
    /\ [][\A k \in 1..MaxDispose :
            /\ (dpc[k] = "notcalled" /\ dpc'[k] # "notcalled")
                  => /\ localFilesMap' = "undefined"
                     /\ syncQueue' = syncQueue
                     /\ terminated' = terminated
                     /\ dpc'[k] = IF IsIdle(syncQueue)
                                  THEN "resolved" ELSE "waiting"
            /\ (dpc[k] = "waiting" /\ dpc'[k] # "waiting")
                  => dpc'[k] = "resolved" /\ IsIdle(syncQueue')
            /\ (dpc[k] = "resolved" /\ dpc'[k] # "resolved")
                  => /\ dpc'[k] = "done"
                     /\ ~syncQueue'.listeners
                     /\ Visited(enteComlinkWorkers) \subseteq terminated']_vars
    /\ [][((syncQueue.listeners /\ ~syncQueue'.listeners)
              \/ terminated' # terminated)
            => \E k \in 1..MaxDispose :
                  dpc[k] = "resolved" /\ dpc'[k] = "done"]_vars

\* C16 witness: dispose() waits while a task runs, with localFilesMap
\* cleared, the listeners attached and the task's worker not terminated
C16_Witness ==
    /\ dpc[1] = "waiting"
    /\ localFilesMap = "undefined"
    /\ syncQueue.listeners
    /\ \E t \in Running : tworker[t] # Empty /\ tworker[t] \notin terminated

\* C17: every worker is stored at an index 0..C-1 of the pool arrays, for
\* negative ids too: the populated slots are at most C, and every handle a
\* task holds has its context in a slot that the loop of dispose() visits.
C17_SlotIndexInRange ==
    cstate = "ready" =>
        /\ Populated(enteWorkers) \subseteq 0..(ctx.concurrency - 1)
        /\ Populated(enteComlinkWorkers) \subseteq 0..(ctx.concurrency - 1)
        /\ Cardinality(Populated(enteWorkers)) <= ctx.concurrency
        /\ \A t \in Tasks :
              tworker[t] # Empty => tworker[t] \in Visited(enteComlinkWorkers)

=============================================================================
